---- MODULE Spec2Model ----
(***************************************************************************)
(* Model of load_data() in src/main.py: the data directory is scanned,     *)
(* every entry name is normalised to NFC, one environment CSV per school   *)
(* and one growth workbook are located by substring rules, read, tagged    *)
(* with the school and its target EC, and concatenated into two tables.    *)
(*                                                                         *)
(* Text is modelled as sequences of Unicode code points, so that NFC        *)
(* normalisation, substring search, strip() and lower() are computed       *)
(* character by character.                                                 *)
(***************************************************************************)
EXTENDS Integers, Sequences, FiniteSets, TLC

(***************************************************************************)
(* Bounds of the model.                                                    *)
(***************************************************************************)
MaxEdits == 1

(***************************************************************************)
(* unicodedata.normalize('NFC', s), restricted to Hangul and ASCII: the    *)
(* algorithmic Hangul (de)composition of the Unicode standard, ch. 3.12.   *)
(***************************************************************************)
SBase == 44032
LBase == 4352
VBase == 4449
TBase == 4519
LCount == 19
VCount == 21
TCount == 28
NCount == 588
SCount == 11172

IsSyllable(c) == c >= SBase /\ c < SBase + SCount
IsL(c) == c >= LBase /\ c < LBase + LCount
IsV(c) == c >= VBase /\ c < VBase + VCount
IsT(c) == c > TBase /\ c < TBase + TCount

DecomposeChar(c) ==
    IF IsSyllable(c)
    THEN LET si == c - SBase
             l == LBase + (si \div NCount)
             v == VBase + ((si % NCount) \div TCount)
             t == TBase + (si % TCount)
         IN IF t = TBase THEN <<l, v>> ELSE <<l, v, t>>
    ELSE <<c>>

RECURSIVE Decompose(_)
Decompose(s) ==
    IF s = <<>> THEN <<>> ELSE DecomposeChar(Head(s)) \o Decompose(Tail(s))

RECURSIVE ComposeFrom(_, _)
ComposeFrom(out, rest) ==
    IF rest = <<>> THEN out
    ELSE LET c == Head(rest)
             n == Len(out)
             last == IF n = 0 THEN 0 ELSE out[n]
         IN IF n > 0 /\ IsL(last) /\ IsV(c)
            THEN ComposeFrom([out EXCEPT ![n] =
                     SBase + ((last - LBase) * VCount + (c - VBase)) * TCount],
                     Tail(rest))
            ELSE IF n > 0 /\ IsSyllable(last) /\ (last - SBase) % TCount = 0 /\ IsT(c)
            THEN ComposeFrom([out EXCEPT ![n] = last + (c - TBase)], Tail(rest))
            ELSE ComposeFrom(Append(out, c), Tail(rest))

NFD(s) == Decompose(s)

\* a normalisation that leaves every name as spelled on disk
NFCIdentity(s) == s

\* unicodedata.normalize('NFC', s)

NFC(s) == ComposeFrom(<<>>, Decompose(s))

(***************************************************************************)
(* str operations used by load_data: `a in b`, endswith, strip, lower.     *)
(***************************************************************************)
Contains(needle, hay) ==
    \E i \in 0..(Len(hay) - Len(needle)) :
        \A k \in 1..Len(needle) : hay[i + k] = needle[k]

EndsWith(s, suffix) ==
    /\ Len(suffix) <= Len(s)
    /\ \A k \in 1..Len(suffix) : s[Len(s) - Len(suffix) + k] = suffix[k]

IsSpace(c) == c \in {9, 10, 13, 32}

RECURSIVE LStrip(_)
LStrip(s) == IF s # <<>> /\ IsSpace(Head(s)) THEN LStrip(Tail(s)) ELSE s

RECURSIVE RStrip(_)
RStrip(s) ==
    IF s # <<>> /\ IsSpace(s[Len(s)]) THEN RStrip(SubSeq(s, 1, Len(s) - 1)) ELSE s

Strip(s) == RStrip(LStrip(s))

Lower(s) == [i \in 1..Len(s) |-> IF s[i] >= 65 /\ s[i] <= 90 THEN s[i] + 32 ELSE s[i]]


(***************************************************************************)
(* Cell values of a DataFrame.  t is the kind of the value: a float (n, in *)
(* thousandths), a string (s), a timestamp (n = yyyymmdd), or the null     *)
(* markers NaN and NaT.                                                    *)
(***************************************************************************)
NaN == [t |-> "nan", n |-> 0, s |-> <<>>]
NaT == [t |-> "nat", n |-> 0, s |-> <<>>]
Float(n) == [t |-> "float", n |-> n, s |-> <<>>]
Str(s) == [t |-> "str", n |-> 0, s |-> s]
Ts(n) == [t |-> "ts", n |-> n, s |-> <<>>]
IsNull(v) == v.t \in {"nan", "nat"}

IsDigit(c) == c >= 48 /\ c <= 57

RECURSIVE DigitsValue(_)
DigitsValue(s) ==
    IF s = <<>> THEN 0
    ELSE 10 * DigitsValue(SubSeq(s, 1, Len(s) - 1)) + (s[Len(s)] - 48)

\* the default na_values of pandas.read_csv that the inputs use:
\* "", "NA", "NaN", "nan", "null", "N/A"
IsNAText(s) ==
    s \in {<<>>, <<78, 65>>, <<78, 97, 78>>, <<110, 97, 110>>,
           <<110, 117, 108, 108>>, <<78, 47, 65>>}

\* a decimal literal: optional '-', digits, at most one '.', at most three
\* fractional digits (the precision of the model)
IsFloatText(s) ==
    LET b == IF s # <<>> /\ Head(s) = 45 THEN Tail(s) ELSE s
        dots == {i \in 1..Len(b) : b[i] = 46}
    IN /\ Cardinality(dots) <= 1
       /\ \A i \in 1..Len(b) : IsDigit(b[i]) \/ b[i] = 46
       /\ \E i \in 1..Len(b) : IsDigit(b[i])
       /\ \A i \in dots : Len(b) - i <= 3

Pow10(k) == CASE k = 0 -> 1 [] k = 1 -> 10 [] k = 2 -> 100 [] OTHER -> 1000

ParseFloat(s) ==
    LET neg == s # <<>> /\ Head(s) = 45
        b == IF neg THEN Tail(s) ELSE s
        dots == {i \in 1..Len(b) : b[i] = 46}
        d == IF dots = {} THEN Len(b) + 1 ELSE CHOOSE i \in dots : TRUE
        ip == SubSeq(b, 1, d - 1)
        fp == SubSeq(b, d + 1, Len(b))
        m == DigitsValue(ip) * 1000 + DigitsValue(fp) * Pow10(3 - Len(fp))
    IN Float(IF neg THEN 0 - m ELSE m)

\* pandas.read_csv type inference of one column: a column whose non-null
\* cells are all numeric becomes a float column; any other column keeps the
\* text of every cell (dtype object).  Null texts become NaN in both cases.
InferAllText(cells) ==
    [i \in 1..Len(cells) |->
        IF IsNAText(cells[i]) THEN NaN ELSE Str(cells[i])]

InferColumn(cells) ==
    IF \A i \in 1..Len(cells) : IsNAText(cells[i]) \/ IsFloatText(cells[i])
    THEN [i \in 1..Len(cells) |->
             IF IsNAText(cells[i]) THEN NaN ELSE ParseFloat(cells[i])]
    ELSE InferAllText(cells)

\* pandas.read_csv(fpath): raises on a file that is not delimited text,
\* otherwise a DataFrame with the header row as columns.
ReadCsv(body) ==
    IF ~body.csv.ok THEN [raised |-> TRUE, df |-> [columns |-> <<>>, rows |-> <<>>]]
    ELSE LET hdr == body.csv.header
             raw == body.csv.rows
             col(j) == InferColumn([i \in 1..Len(raw) |-> raw[i][j]])
         IN [raised |-> FALSE,
             df |-> [columns |-> hdr,
                     rows |-> [i \in 1..Len(raw) |->
                                  [j \in 1..Len(hdr) |-> col(j)[i]]]]]

\* df.columns = df.columns.str.strip().str.lower()
NormalizeColumns(df) ==
    [df EXCEPT !.columns = [j \in 1..Len(df.columns) |-> Lower(Strip(df.columns[j]))]]

HasColumn(df, name) == \E j \in 1..Len(df.columns) : df.columns[j] = name

ColIndex(df, name) ==
    CHOOSE j \in 1..Len(df.columns) :
        /\ df.columns[j] = name
        /\ \A k \in 1..(j - 1) : df.columns[k] # name

\* the ISO dates yyyy-mm-dd are the timestamps of the model
DaysIn(y, m) ==
    IF m \in {4, 6, 9, 11} THEN 30
    ELSE IF m = 2
    THEN (IF (y % 4 = 0 /\ y % 100 # 0) \/ y % 400 = 0 THEN 29 ELSE 28)
    ELSE 31

IsDateText(s) ==
    /\ Len(s) = 10
    /\ s[5] = 45 /\ s[8] = 45
    /\ \A i \in {1, 2, 3, 4, 6, 7, 9, 10} : IsDigit(s[i])
    /\ LET y == DigitsValue(SubSeq(s, 1, 4))
           m == DigitsValue(SubSeq(s, 6, 7))
           d == DigitsValue(SubSeq(s, 9, 10))
       IN m >= 1 /\ m <= 12 /\ d >= 1 /\ d <= DaysIn(y, m)

ParseDate(s) ==
    Ts(DigitsValue(SubSeq(s, 1, 4)) * 10000
       + DigitsValue(SubSeq(s, 6, 7)) * 100 + DigitsValue(SubSeq(s, 9, 10)))

\* pd.to_datetime(v, errors='coerce') of one value
ToDatetimeCoerce(v) ==
    IF v.t = "str" /\ IsDateText(v.s) THEN ParseDate(v.s)
    ELSE IF v.t = "ts" THEN v
    ELSE IF v.t = "float" THEN Ts(19700101)
    ELSE NaT

\* df[name] = pd.to_datetime(df[name], errors='coerce')
ToDatetimeColumn(df, name) ==
    [df EXCEPT !.rows = [i \in 1..Len(df.rows) |->
        [j \in 1..Len(df.columns) |->
            IF df.columns[j] = name THEN ToDatetimeCoerce(df.rows[i][j])
            ELSE df.rows[i][j]]]]

\* df[name] = value
SetColumn(df, name, value) ==
    IF HasColumn(df, name)
    THEN [df EXCEPT !.rows = [i \in 1..Len(df.rows) |->
             [j \in 1..Len(df.columns) |->
                 IF df.columns[j] = name THEN value ELSE df.rows[i][j]]]]
    ELSE [columns |-> Append(df.columns, name),
          rows |-> [i \in 1..Len(df.rows) |-> Append(df.rows[i], value)]]

EmptyDataFrame == [columns |-> <<>>, rows |-> <<>>]

\* pd.concat([a, b], ignore_index=True): the columns of a, then the new
\* columns of b; the rows of a, then the rows of b; NaN where a frame lacks
\* a column.
NewColumns(a, b) ==
    SelectSeq(b.columns, LAMBDA c : ~HasColumn(a, c))

Realign(df, cols) ==
    [i \in 1..Len(df.rows) |->
        [j \in 1..Len(cols) |->
            IF HasColumn(df, cols[j]) THEN df.rows[i][ColIndex(df, cols[j])] ELSE NaN]]

\* a concatenation that puts the rows of b first
Concat2Reversed(a, b) ==
    LET cols == a.columns \o NewColumns(a, b)
    IN [columns |-> cols, rows |-> Realign(b, cols) \o Realign(a, cols)]

Concat2(a, b) ==
    LET cols == a.columns \o NewColumns(a, b)
    IN [columns |-> cols, rows |-> Realign(a, cols) \o Realign(b, cols)]

RECURSIVE ConcatAll(_)
ConcatAll(dfs) ==
    IF Len(dfs) = 1 THEN dfs[1]
    ELSE Concat2(ConcatAll(SubSeq(dfs, 1, Len(dfs) - 1)), dfs[Len(dfs)])


(***************************************************************************)
(* Configuration and keywords of load_data.                                *)
(***************************************************************************)
songdo == <<49569, 46020, 44256>>     \* "송도고"
haneul == <<54616, 45720, 44256>>     \* "하늘고"
ara == <<50500, 46972, 44256>>        \* "아라고"
dongsan == <<46041, 49328, 44256>>    \* "동산고"

\* school_config, in insertion order; ec in thousandths like every float
school_config ==
    << [name |-> songdo, ec |-> 1000],
       [name |-> haneul, ec |-> 2000],
       [name |-> ara, ec |-> 4000],
       [name |-> dongsan, ec |-> 8000] >>

Schools == 1..Len(school_config)

kwEnv == <<54872, 44221>>                \* "환경"
kwGrowth == <<49373, 50977, 44208, 44284>>  \* "생육결과"
extCsv == <<46, 99, 115, 118>>              \* ".csv"
extXlsx == <<46, 120, 108, 115, 120>>       \* ".xlsx"
colTime == <<116, 105, 109, 101>>            \* "time"
colSchool == <<115, 99, 104, 111, 111, 108>>      \* "school"
colTargetEc == <<116, 97, 114, 103, 101, 116, 95, 101, 99>>  \* "target_ec"

\* school_name in fname and "환경" in fname and fname.endswith(".csv")
MatchesEnv(school_name, fname) ==
    Contains(school_name, fname) /\ Contains(kwEnv, fname) /\ EndsWith(fname, extCsv)

\* "생육결과" in fname and fname.endswith(".xlsx")
MatchesGrowth(fname) ==
    Contains(kwGrowth, fname) /\ EndsWith(fname, extXlsx)

(***************************************************************************)
(* The files the environment can put into the data directory.              *)
(***************************************************************************)
hdrPlain ==
    << colTime,
       <<116, 101, 109, 112, 101, 114, 97, 116, 117, 114, 101>>,
       <<104, 117, 109, 105, 100, 105, 116, 121>>,
       <<112, 104>>, <<101, 99>> >>

\* " Time", "Temperature ", "Humidity", "PH", "EC "
hdrMessy ==
    << <<32, 84, 105, 109, 101>>,
       <<84, 101, 109, 112, 101, 114, 97, 116, 117, 114, 101, 32>>,
       <<72, 117, 109, 105, 100, 105, 116, 121>>,
       <<80, 72>>, <<69, 67, 32>> >>

CsvFile(header, rows) ==
    [csv |-> [ok |-> TRUE, header |-> header, rows |-> rows],
     xlsx |-> [ok |-> FALSE, sheets |-> <<>>]]

XlsxFile(sheets) ==
    [csv |-> [ok |-> FALSE, header |-> <<>>, rows |-> <<>>],
     xlsx |-> [ok |-> TRUE, sheets |-> sheets]]

Junk ==
    [csv |-> [ok |-> FALSE, header |-> <<>>, rows |-> <<>>],
     xlsx |-> [ok |-> FALSE, sheets |-> <<>>]]

\* 2024-05-01,21.5,60.0,6.1,1.0 / 2024-05-02,22.0,61.5,6.0,1.1
envSongdo ==
    CsvFile(hdrPlain,
      << << <<50, 48, 50, 52, 45, 48, 53, 45, 48, 49>>, <<50, 49, 46, 53>>, <<54, 48, 46, 48>>, <<54, 46, 49>>, <<49, 46, 48>> >>,
         << <<50, 48, 50, 52, 45, 48, 53, 45, 48, 50>>, <<50, 50, 46, 48>>, <<54, 49, 46, 53>>, <<54, 46, 48>>, <<49, 46, 49>> >> >>)

\* 2024-05-01,23.0,55.0,5.9,2.0
envHaneul ==
    CsvFile(hdrMessy,
      << << <<50, 48, 50, 52, 45, 48, 53, 45, 48, 49>>, <<50, 51, 46, 48>>, <<53, 53, 46, 48>>, <<53, 46, 57>>, <<50, 46, 48>> >> >>)

\* 2024-13-01,abc,58.0,,4.1 / 2024-05-02,24.5,57.0,6.2,4.0
envAra ==
    CsvFile(hdrPlain,
      << << <<50, 48, 50, 52, 45, 49, 51, 45, 48, 49>>, <<97, 98, 99>>, <<53, 56, 46, 48>>, <<>>, <<52, 46, 49>> >>,
         << <<50, 48, 50, 52, 45, 48, 53, 45, 48, 50>>, <<50, 52, 46, 53>>, <<53, 55, 46, 48>>, <<54, 46, 50>>, <<52, 46, 48>> >> >>)

\* 2024-05-01,20.0,50.0,6.5,7.9
envDongsan ==
    CsvFile(hdrPlain,
      << << <<50, 48, 50, 52, 45, 48, 53, 45, 48, 49>>, <<50, 48, 46, 48>>, <<53, 48, 46, 48>>, <<54, 46, 53>>, <<55, 46, 57>> >> >>)

\* 2023-05-01,19.5,48.0,6.4,0.9
envSongdoOld ==
    CsvFile(hdrPlain,
      << << <<50, 48, 50, 51, 45, 48, 53, 45, 48, 49>>, <<49, 57, 46, 53>>, <<52, 56, 46, 48>>, <<54, 46, 52>>, <<48, 46, 57>> >> >>)

\* "생중량(g)", "잎 수(장)"
growthColumns ==
    << <<49373, 51473, 47049, 40, 103, 41>>, <<51086, 32, 49688, 40, 51109, 41>> >>

Sheet(name, rows) == [name |-> name, df |-> [columns |-> growthColumns, rows |-> rows]]

\* sheets "동산고", "송도고" (decomposed), "요약", "하늘고_생육", "아라고"
wbFull ==
    XlsxFile(
      << Sheet(dongsan, << <<Float(1200), Float(5000)>> >>),
         Sheet(NFD(songdo), << <<Float(2100), Float(7000)>>, <<Float(2300), NaN>> >>),
         Sheet(<<50836, 50557>>, << <<Float(9900), Float(9000)>> >>),
         Sheet(haneul \o <<95, 49373, 50977>>, << <<Float(3500), Float(9000)>> >>),
         Sheet(ara, << <<Float(1800), Float(6000)>> >>) >>)

\* sheets "하늘고", "요약"
wbOld ==
    XlsxFile(
      << Sheet(haneul, << <<Float(3000), Float(8000)>> >>),
         Sheet(<<50836, 50557>>, << <<Float(9000), Float(8000)>> >>) >>)

sepEnvCsv == <<95, 54872, 44221, 46, 99, 115, 118>>   \* "_환경.csv"
nameGrowth == <<49373, 50977, 44208, 44284, 46, 120, 108, 115, 120>>   \* "생육결과.xlsx"

\* what reading a file yields, by the identity of its content
Content(body) ==
    CASE body = "envSongdo" -> envSongdo
      [] body = "envHaneul" -> envHaneul
      [] body = "envAra" -> envAra
      [] body = "envDongsan" -> envDongsan
      [] body = "envSongdoOld" -> envSongdoOld
      [] body = "wbFull" -> wbFull
      [] body = "wbOld" -> wbOld
      [] OTHER -> Junk

File(name, body) == [name |-> name, body |-> body]

\* the well-formed directory, in an enumeration order that is not the
\* configuration order
BaseListing ==
    << File(dongsan \o sepEnvCsv, "envDongsan"),
       File(nameGrowth, "wbFull"),
       File(ara \o sepEnvCsv, "envAra"),
       File(songdo \o sepEnvCsv, "envSongdo"),
       File(haneul \o sepEnvCsv, "envHaneul") >>

\* further files: "송도고_환경_old.csv", the decomposed spelling of
\* "송도고_환경.csv", "생육결과_old.xlsx", the decomposed spelling of
\* "생육결과.xlsx", "송도고_환경.txt"
ExtraFiles ==
    { File(songdo \o <<95, 54872, 44221, 95, 111, 108, 100, 46, 99, 115, 118>>, "envSongdoOld"),
      File(NFD(songdo \o sepEnvCsv), "envSongdoOld"),
      File(<<49373, 50977, 44208, 44284, 95, 111, 108, 100, 46, 120, 108, 115, 120>>, "wbOld"),
      File(NFD(nameGrowth), "wbOld"),
      File(songdo \o <<95, 54872, 44221, 46, 116, 120, 116>>, "envSongdoOld") }

(***************************************************************************)
(* Every name the model normalises: file names and sheet names, in both    *)
(* spellings.  NormalizeTable holds NFC of each, computed once.            *)
(***************************************************************************)
SheetNames(body) ==
    {Content(body).xlsx.sheets[i].name : i \in 1..Len(Content(body).xlsx.sheets)}

PoolFiles == {BaseListing[i] : i \in 1..Len(BaseListing)} \cup ExtraFiles

PoolNames ==
    LET raw == {f.name : f \in PoolFiles} \cup UNION {SheetNames(f.body) : f \in PoolFiles}
    IN raw \cup {NFD(n) : n \in raw} \cup {NFC(n) : n \in raw}

NormalizeTable == [n \in PoolNames |-> NFC(n)]

\* unicodedata.normalize('NFC', name)
Normalize(name) == NormalizeTable[name]

(***************************************************************************)
(* files_map: a dict from the NFC name of every directory entry to its     *)
(* path, in insertion order.  Assigning an existing key keeps the key's    *)
(* position and replaces its path.  A path is the directory entry itself:  *)
(* its on-disk name and the content reading it gives.                      *)
(***************************************************************************)
KeyIndex(fm, key) ==
    IF \E i \in 1..Len(fm) : fm[i].fname = key
    THEN CHOOSE i \in 1..Len(fm) : fm[i].fname = key
    ELSE 0

DictSet(fm, key, path) ==
    IF KeyIndex(fm, key) = 0
    THEN Append(fm, [fname |-> key, fpath |-> path])
    ELSE [fm EXCEPT ![KeyIndex(fm, key)].fpath = path]

RECURSIVE FilesMapFrom(_, _)
FilesMapFrom(fm, listing) ==
    IF listing = <<>> THEN fm
    ELSE FilesMapFrom(DictSet(fm, Normalize(Head(listing).name), Head(listing)),
                      Tail(listing))

FilesMap(listing) == FilesMapFrom(<<>>, listing)

\* the first item of files_map, in iteration order, whose key satisfies the
\* rule; 0 when the loop ends without a match
FirstEnvMatch(fm, school_name) ==
    IF \E i \in 1..Len(fm) : MatchesEnv(school_name, fm[i].fname)
    THEN CHOOSE i \in 1..Len(fm) :
            /\ MatchesEnv(school_name, fm[i].fname)
            /\ \A k \in 1..(i - 1) : ~MatchesEnv(school_name, fm[k].fname)
    ELSE 0

FirstGrowthMatch(fm) ==
    IF \E i \in 1..Len(fm) : MatchesGrowth(fm[i].fname)
    THEN CHOOSE i \in 1..Len(fm) :
            /\ MatchesGrowth(fm[i].fname)
            /\ \A k \in 1..(i - 1) : ~MatchesGrowth(fm[k].fname)
    ELSE 0

(***************************************************************************)
(* 1) environment data.                                                    *)
(***************************************************************************)
\* a tagging that gives every school the EC of the first one
TagRowsFirstEc(df, cfg) ==
    SetColumn(SetColumn(df, colSchool, Str(cfg.name)), colTargetEc,
              Float(school_config[1].ec))

\* df['school'] = school_name; df['target_ec'] = config['ec']

TagRows(df, cfg) ==
    SetColumn(SetColumn(df, colSchool, Str(cfg.name)), colTargetEc, Float(cfg.ec))

\* the body of the try block for one matching file
LoadEnvFile(cfg, fpath) ==
    LET r == ReadCsv(Content(fpath.body))
        df1 == NormalizeColumns(r.df)
        df2 == IF HasColumn(df1, colTime)
               THEN ToDatetimeColumn(df1, colTime)
               ELSE df1
    IN IF r.raised THEN r ELSE [raised |-> FALSE, df |-> TagRows(df2, cfg)]

\* LoadEnvFile of every school and content, computed once
Bodies == {f.body : f \in PoolFiles} \cup {"junk"}

EnvFileCache ==
    [k \in Schools, b \in Bodies |-> LoadEnvFile(school_config[k], File(<<>>, b))]

\* the loop over school_config: acc.failed is the return inside the except
\* clause; a school with no matching file leaves everything unchanged (pass)
RECURSIVE EnvLoop(_, _, _)
EnvLoop(k, fm, acc) ==
    IF k > Len(school_config) \/ acc.failed THEN acc
    ELSE LET cfg == school_config[k]
             i == FirstEnvMatch(fm, cfg.name)
         IN IF i = 0 THEN EnvLoop(k + 1, fm, acc)
            ELSE LET r == EnvFileCache[k, fm[i].fpath.body]
                     rd == Append(acc.reads, fm[i].fpath.name)
                 IN IF r.raised
                    THEN [acc EXCEPT !.failed = TRUE, !.fname = fm[i].fname, !.reads = rd]
                    ELSE EnvLoop(k + 1, fm,
                            [acc EXCEPT !.env_dfs = Append(@, r.df), !.reads = rd])

EnvAcc0 == [failed |-> FALSE, fname |-> <<>>, env_dfs |-> <<>>, reads |-> <<>>,
            warnings |-> <<>>]

\* the same loads with the loops exchanged: files outermost, in files_map
\* order, each file loaded for the schools it matches
RECURSIVE EnvLoopByFile(_, _, _, _)
EnvLoopByFile(i, k, fm, acc) ==
    IF i > Len(fm) \/ acc.failed THEN acc
    ELSE IF k > Len(school_config) THEN EnvLoopByFile(i + 1, 1, fm, acc)
    ELSE IF FirstEnvMatch(fm, school_config[k].name) # i
    THEN EnvLoopByFile(i, k + 1, fm, acc)
    ELSE LET r == EnvFileCache[k, fm[i].fpath.body]
             rd == Append(acc.reads, fm[i].fpath.name)
         IN IF r.raised
            THEN [acc EXCEPT !.failed = TRUE, !.fname = fm[i].fname, !.reads = rd]
            ELSE EnvLoopByFile(i, k + 1, fm,
                    [acc EXCEPT !.env_dfs = Append(@, r.df), !.reads = rd])

LoadEnvironmentByFile(fm) == EnvLoopByFile(1, 1, fm, EnvAcc0)

LoadEnvironment(fm) == EnvLoop(1, fm, EnvAcc0)

(***************************************************************************)
(* 2) growth data.                                                         *)
(***************************************************************************)
\* pd.read_excel(growth_file, sheet_name=None): raises on a file that is
\* not a workbook, otherwise the sheets in workbook order
ReadExcel(body) ==
    IF ~body.xlsx.ok THEN [raised |-> TRUE, sheets |-> <<>>]
    ELSE [raised |-> FALSE, sheets |-> body.xlsx.sheets]

\* a sheet matcher that wants the sheet name to be the school name
MatchedSchoolExact(norm_sheet) ==
    IF \E k \in Schools : school_config[k].name = norm_sheet
    THEN CHOOSE k \in Schools : school_config[k].name = norm_sheet
    ELSE 0

\* next((s for s in school_config.keys() if s in norm_sheet), None);
\* 0 stands for None
MatchedSchool(norm_sheet) ==
    IF \E k \in Schools : Contains(school_config[k].name, norm_sheet)
    THEN CHOOSE k \in Schools :
            /\ Contains(school_config[k].name, norm_sheet)
            /\ \A j \in 1..(k - 1) : ~Contains(school_config[j].name, norm_sheet)
    ELSE 0

RECURSIVE SheetLoop(_, _)
SheetLoop(sheets, growth_df_all) ==
    IF sheets = <<>> THEN growth_df_all
    ELSE LET sh == Head(sheets)
             matched_school == MatchedSchool(Normalize(sh.name))
         IN IF matched_school # 0
            THEN SheetLoop(Tail(sheets),
                    Concat2(growth_df_all, TagRows(sh.df, school_config[matched_school])))
            ELSE SheetLoop(Tail(sheets), growth_df_all)

\* the try block of the growth workbook
LoadGrowthFile(fpath) ==
    LET r == ReadExcel(Content(fpath.body))
    IN [raised |-> r.raised,
        df |-> IF r.raised THEN EmptyDataFrame ELSE SheetLoop(r.sheets, EmptyDataFrame)]

\* LoadGrowthFile of every content, computed once
GrowthFileCache == [b \in Bodies |-> LoadGrowthFile(File(<<>>, b))]

\* found is `if growth_file:`; raised is the except clause
LoadGrowth(fm) ==
    LET i == FirstGrowthMatch(fm)
    IN IF i = 0
       THEN [found |-> FALSE, raised |-> FALSE, df |-> EmptyDataFrame, reads |-> <<>>]
       ELSE LET r == GrowthFileCache[fm[i].fpath.body]
            IN [found |-> TRUE, raised |-> r.raised, df |-> r.df,
                reads |-> <<fm[i].fpath.name>>]

(***************************************************************************)
(* The value load_data returns: (env_df_all, growth_df_all, error), or an  *)
(* exception that leaves the function.  reads lists the paths handed to    *)
(* read_csv / read_excel, in order; warnings is what the result carries    *)
(* besides the fatal error.                                                *)
(***************************************************************************)
NoTable == [none |-> TRUE, df |-> EmptyDataFrame]
Table(df) == [none |-> FALSE, df |-> df]
NoError == [kind |-> "None", fname |-> <<>>]

Fatal(kind, fname, reads) ==
    [status |-> "returned", env |-> NoTable, growth |-> NoTable,
     err |-> [kind |-> kind, fname |-> fname], reads |-> reads, warnings |-> <<>>]

Raised(exc) ==
    [status |-> "raised", env |-> NoTable, growth |-> NoTable,
     err |-> [kind |-> exc, fname |-> <<>>], reads |-> <<>>, warnings |-> <<>>]

\* a final step without the check of env_dfs
AssembleNoCheck(e, g) ==
    [status |-> "returned",
     env |-> Table(IF e.env_dfs = <<>> THEN EmptyDataFrame ELSE ConcatAll(e.env_dfs)),
     growth |-> Table(g.df), err |-> NoError,
     reads |-> e.reads \o g.reads, warnings |-> e.warnings]

\* if not env_dfs: return None, None, "..." ; else concat and return
Assemble(e, g) ==
    IF e.env_dfs = <<>>
    THEN Fatal("no_env_csv", <<>>, e.reads \o g.reads)
    ELSE [status |-> "returned", env |-> Table(ConcatAll(e.env_dfs)),
          growth |-> Table(g.df), err |-> NoError,
          reads |-> e.reads \o g.reads, warnings |-> e.warnings]

\* kind is what Path("data") is: "absent", "file" (exists() holds but it is
\* no directory, so iterdir() raises outside every try block) or "dir"
load_data(kind, listing) ==
    IF kind = "absent" THEN Fatal("no_data_dir", <<>>, <<>>)
    ELSE IF kind = "file" THEN Raised("NotADirectoryError")
    ELSE LET fm == FilesMap(listing)
             e == LoadEnvironment(fm)
             g == LoadGrowth(fm)
         IN IF e.failed THEN Fatal("env_load_failed", e.fname, e.reads)
            ELSE IF ~g.found THEN Fatal("no_growth_xlsx", <<>>, e.reads)
            ELSE IF g.raised THEN Fatal("growth_load_failed", <<>>, e.reads \o g.reads)
            ELSE Assemble(e, g)


(***************************************************************************)
(* State.  dirKind and listing are the file system: what Path("data") is   *)
(* and, for a directory, its entries in the order iterdir() yields them.   *)
(* result is the outcome of the latest load_data call and prev that of the *)
(* call before it; pending describes how the file system changed since the *)
(* latest call and change how it changed between the two calls.            *)
(***************************************************************************)
VARIABLES dirKind, listing, result, prev, pending, change, edits

vars == <<dirKind, listing, result, prev, pending, change, edits>>

\* iterdir() yields the entries in arbitrary order, chosen anew by every
\* call: the order of the listing or the opposite one
Orders == {"forward", "backward"}

NoResult ==
    [order |-> "none", status |-> "none", env |-> NoTable, growth |-> NoTable,
     err |-> NoError, reads |-> <<>>, warnings |-> <<>>]

NoChange == [op |-> "none", name |-> <<>>]

Edit(op, name) ==
    IF pending.op = "none"
    THEN [op |-> op, name |-> name]
    ELSE [op |-> "many", name |-> <<>>]

Names(l) == {l[i].name : i \in 1..Len(l)}

SubListing(l, S) == SelectSeq(l, LAMBDA f : f.name \in S)

Reverse(l) == [i \in 1..Len(l) |-> l[Len(l) + 1 - i]]

Enumerate(l, order) == IF order = "backward" THEN Reverse(l) ELSE l

\* the outcome of a call, with the enumeration order it saw
Outcome(order, r) ==
    [order |-> order, status |-> r.status, env |-> r.env, growth |-> r.growth,
     err |-> r.err, reads |-> r.reads, warnings |-> r.warnings]

OtherForm(name) == IF Normalize(name) = name THEN NFD(name) ELSE Normalize(name)

\* the directories a run starts from: the well-formed directory, the
\* well-formed directory without one of its files, the growth workbook
\* alone, nothing
InitNames ==
    {S \in SUBSET Names(BaseListing) :
        S \subseteq {nameGrowth} \/ Cardinality(S) >= Len(BaseListing) - 1}

Init ==
    /\ dirKind \in {"absent", "file", "dir"}
    /\ \E S \in InitNames :
          listing = IF dirKind = "dir" THEN SubListing(BaseListing, S) ELSE <<>>
    /\ result = NoResult
    /\ prev = NoResult
    /\ pending = NoChange
    /\ change = NoChange
    /\ edits = 0

\* env_df, growth_df, error_msg = load_data(): one run of the function
\* body (st.cache_data, which would answer later calls from its cache, is
\* left out)
LoadData(order) ==
    /\ result' = Outcome(order, load_data(dirKind, Enumerate(listing, order)))
    /\ prev' = IF pending.op = "many" THEN NoResult ELSE result
    /\ change' = pending
    /\ pending' = NoChange
    /\ UNCHANGED <<dirKind, listing, edits>>

CanEdit == dirKind = "dir" /\ edits < MaxEdits

\* a file appears in the directory
CreateFile(f) ==
    /\ CanEdit
    /\ f.name \notin Names(listing)
    /\ listing' = Append(listing, f)
    /\ pending' = Edit("create", f.name)
    /\ edits' = edits + 1
    /\ UNCHANGED <<dirKind, result, prev, change>>

\* a file is deleted
RemoveFile(i) ==
    /\ CanEdit
    /\ listing' = SubSeq(listing, 1, i - 1) \o SubSeq(listing, i + 1, Len(listing))
    /\ pending' = Edit("remove", listing[i].name)
    /\ edits' = edits + 1
    /\ UNCHANGED <<dirKind, result, prev, change>>

\* a file is overwritten with content no reader can parse
CorruptFile(i) ==
    /\ CanEdit
    /\ listing[i].body # "junk"
    /\ listing' = [listing EXCEPT ![i].body = "junk"]
    /\ pending' = Edit("corrupt", listing[i].name)
    /\ edits' = edits + 1
    /\ UNCHANGED <<dirKind, result, prev, change>>

\* a file name is respelled in the other normalisation form, as copying
\* the directory between macOS and Linux does
RenameFile(i) ==
    /\ CanEdit
    /\ OtherForm(listing[i].name) \notin Names(listing)
    /\ listing' = [listing EXCEPT ![i].name = OtherForm(listing[i].name)]
    /\ pending' = Edit("rename", OtherForm(listing[i].name))
    /\ edits' = edits + 1
    /\ UNCHANGED <<dirKind, result, prev, change>>

Next ==
    \/ \E order \in Orders : LoadData(order)
    \/ \E f \in ExtraFiles : CreateFile(f)
    \/ \E i \in 1..Len(listing) : RemoveFile(i)
    \/ \E i \in 1..Len(listing) : CorruptFile(i)
    \/ \E i \in 1..Len(listing) : RenameFile(i)

Spec == Init /\ [][Next]_vars


(***************************************************************************)
(* Vocabulary of the properties.                                           *)
(***************************************************************************)
\* result is the outcome of a call on the file system as it is now
Fresh == result.status # "none" /\ pending.op = "none"

Succeeded(r) ==
    r.status = "returned" /\ ~r.env.none /\ ~r.growth.none /\ r.err = NoError

FatalForm(r) ==
    r.status = "returned" /\ r.env.none /\ r.growth.none /\ r.err # NoError

\* what load_data hands back to its caller, without the bookkeeping
Ret(r) == [status |-> r.status, env |-> r.env, growth |-> r.growth, err |-> r.err,
           warnings |-> r.warnings]

Range(q) == {q[i] : i \in 1..Len(q)}

\* the entries of a listing that satisfy the rule of school k / the growth rule
SatEnv(l, k) ==
    {i \in 1..Len(l) : MatchesEnv(school_config[k].name, Normalize(l[i].name))}

SatGrowth(l) == {i \in 1..Len(l) : MatchesGrowth(Normalize(l[i].name))}

Min(S) == CHOOSE x \in S : \A y \in S : x <= y

NoGrowthEntry == SatGrowth(listing) = {}

NoEnvEntry == \A k \in Schools : SatEnv(listing, k) = {}

\* the rows of a table tagged with school k
RowsOf(tbl, k) ==
    IF HasColumn(tbl.df, colSchool)
    THEN SelectSeq(tbl.df.rows,
            LAMBDA row : row[ColIndex(tbl.df, colSchool)] = Str(school_config[k].name))
    ELSE <<>>

RECURSIVE Flatten(_)
Flatten(qs) == IF qs = <<>> THEN <<>> ELSE Head(qs) \o Flatten(Tail(qs))

RECURSIVE SumSeq(_)
SumSeq(q) == IF q = <<>> THEN 0 ELSE Head(q) + SumSeq(Tail(q))

\* the entry the latest call read for school k, and the workbook it read
EnvEntriesRead(k) ==
    {i \in SatEnv(listing, k) : listing[i].name \in Range(result.reads)}

GrowthEntriesRead ==
    {i \in SatGrowth(listing) : listing[i].name \in Range(result.reads)}

SheetMatches(sh) ==
    \E k \in Schools : Contains(school_config[k].name, Normalize(sh.name))

\* C1: in a data directory where no entry satisfies the growth rule, or no
\* entry satisfies the environment rule of any configured school, load_data
\* returns an error message and neither table.
C1_TotalAbsenceFatal ==
    (Fresh /\ dirKind = "dir" /\ (NoGrowthEntry \/ NoEnvEntry)) => FatalForm(result)

C1_Witness ==
    /\ Fresh /\ dirKind = "dir"
    /\ NoEnvEntry /\ ~NoGrowthEntry
    /\ listing # <<>>
    /\ result.err.kind = "no_env_csv"

\* the directory before the latest edit, when that edit removed one file
RemovedSchools ==
    {k \in Schools : MatchesEnv(school_config[k].name, Normalize(change.name))}

\* C2: from a directory where every school has an environment file and the
\* growth workbook is present, removing the environment file of exactly one
\* school gives a successful load that carries a warning naming that school,
\* has no environment row of that school and the same environment rows as
\* before for every other school.
C2_PartialTolerance ==
    (/\ Fresh /\ change.op = "remove" /\ Succeeded(prev)
     /\ \A k \in Schools : RowsOf(prev.env, k) # <<>>
     /\ Cardinality(RemovedSchools) = 1
     /\ \A k \in RemovedSchools : SatEnv(listing, k) = {})
    => /\ Succeeded(result)
       /\ \A k \in RemovedSchools :
            /\ \E i \in 1..Len(result.warnings) :
                  Contains(school_config[k].name, result.warnings[i])
            /\ RowsOf(result.env, k) = <<>>
       /\ \A k \in Schools \ RemovedSchools :
            RowsOf(result.env, k) = RowsOf(prev.env, k)

\* a file the latest call read failed to parse
SomeReadFailed ==
    \/ \E k \in Schools : \E i \in EnvEntriesRead(k) : ~Content(listing[i].body).csv.ok
    \/ \E i \in GrowthEntriesRead : ~Content(listing[i].body).xlsx.ok

\* C3: every call of load_data returns instead of raising; what it returns
\* is either no table, no table and an error message, or both tables and no
\* error message; a missing directory, a missing growth workbook, the
\* absence of every environment file and a file that fails to parse give
\* the first form.
C3_NoPartialDataset ==
    result.status # "none" =>
        /\ result.status = "returned"
        /\ FatalForm(result) \/ Succeeded(result)
        /\ (Fresh /\ (dirKind # "dir" \/ NoGrowthEntry \/ NoEnvEntry \/ SomeReadFailed))
              => FatalForm(result)

\* exactly one parseable environment file per school, one parseable workbook
WellFormed ==
    /\ dirKind = "dir"
    /\ \A k \in Schools :
          /\ Cardinality(SatEnv(listing, k)) = 1
          /\ \A i \in SatEnv(listing, k) : Content(listing[i].body).csv.ok
    /\ Cardinality(SatGrowth(listing)) = 1
    /\ \A i \in SatGrowth(listing) : Content(listing[i].body).xlsx.ok

DataRows(i) == Len(Content(listing[i].body).csv.rows)

MatchedSheetRows(i) ==
    LET sheets == Content(listing[i].body).xlsx.sheets
    IN SumSeq([j \in 1..Len(sheets) |->
                  IF SheetMatches(sheets[j]) THEN Len(sheets[j].df.rows) ELSE 0])

\* C4: in a directory with exactly one parseable environment file per school
\* and one parseable growth workbook, load_data succeeds, the environment
\* table has as many rows as the environment files have data rows, and the
\* growth table as many rows as the sheets naming a configured school.
C4_RowCountConservation ==
    (Fresh /\ WellFormed) =>
        /\ Succeeded(result)
        /\ Len(result.env.df.rows)
             = SumSeq([k \in Schools |-> DataRows(Min(SatEnv(listing, k)))])
        /\ Len(result.growth.df.rows) = MatchedSheetRows(Min(SatGrowth(listing)))

C4_Witness ==
    /\ Fresh /\ WellFormed
    /\ Len(result.env.df.rows) = 6
    /\ Len(result.growth.df.rows) = 5
    /\ \E i \in 1..Len(listing) : listing[i].name # NFC(listing[i].name)

NormReads(r) == [i \in 1..Len(r.reads) |-> NFC(r.reads[i])]

\* C5: respelling the name of a directory entry in the other normalisation
\* form (NFC to NFD or back) changes neither which files are found nor the
\* outcome of the load.
C5_NormalizationInsensitive ==
    (Fresh /\ change.op = "rename" /\ prev.status # "none"
        /\ result.order = prev.order)
    => Ret(result) = Ret(prev) /\ NormReads(result) = NormReads(prev)

C5_Witness ==
    /\ Fresh /\ change.op = "rename" /\ prev.status # "none"
    /\ result.order = prev.order
    /\ Succeeded(result)
    /\ change.name \in Range(result.reads)
    /\ change.name # NFC(change.name)
    /\ NFC(change.name) \in Range(prev.reads)

\* two calls with no change of the file system in between
Repeated == Fresh /\ change.op = "none" /\ prev.status # "none"

\* at most one directory entry satisfies each rule
UniqueMatches ==
    /\ \A k \in Schools : Cardinality(SatEnv(listing, k)) <= 1
    /\ Cardinality(SatGrowth(listing)) <= 1

\* C6 as stated: two successive calls on unchanged files return the same
\* outcome and the same rows in the same order, whatever order the entries
\* are enumerated in by each call.
C6_Idempotent == Repeated => Ret(result) = Ret(prev)

\* C6 as amended: the same, for directories in which at most one entry
\* satisfies each rule.
C6_IdempotentUniqueMatches ==
    (Repeated /\ UniqueMatches) => Ret(result) = Ret(prev)

C6_Witness ==
    /\ Repeated /\ UniqueMatches
    /\ result.order # prev.order
    /\ Succeeded(result)
    /\ Len(result.reads) = Len(school_config) + 1

\* the cell of a loaded row under a column, and what the text of a cell
\* of the file is to become
EnvCell(row, col) == row[ColIndex(result.env.df, col)]

CellAsClaimed(col, raw, cell) ==
    IF IsNAText(raw) THEN IsNull(cell)
    ELSE IF col = colTime
    THEN (IF IsDateText(raw) THEN cell = ParseDate(raw) ELSE IsNull(cell))
    ELSE (IF IsFloatText(raw) THEN cell = ParseFloat(raw) ELSE IsNull(cell))

\* C7: a value that fails to parse in the time column, or a non-numeric
\* value in a numeric column, of an environment file leaves the load
\* successful and the row in place, puts a null marker in that field and
\* leaves every other field of every row with its value.
C7_MalformedCellTolerance ==
    (Fresh /\ WellFormed) =>
        /\ Succeeded(result)
        /\ \A k \in Schools : \A i \in SatEnv(listing, k) :
             LET csv == Content(listing[i].body).csv
                 rows == RowsOf(result.env, k)
             IN /\ Len(rows) = Len(csv.rows)
                /\ \A r \in 1..Len(rows) : \A j \in 1..Len(csv.header) :
                      CellAsClaimed(Lower(Strip(csv.header[j])), csv.rows[r][j],
                                    EnvCell(rows[r], Lower(Strip(csv.header[j]))))

SchoolOfRow(df, row) ==
    {k \in Schools :
        /\ HasColumn(df, colSchool) /\ HasColumn(df, colTargetEc)
        /\ row[ColIndex(df, colSchool)] = Str(school_config[k].name)
        /\ row[ColIndex(df, colTargetEc)] = Float(school_config[k].ec)}

SheetsRead ==
    UNION {Range(Content(listing[i].body).xlsx.sheets) : i \in GrowthEntriesRead}

GrowthValues(df, row) ==
    [j \in 1..Len(growthColumns) |-> row[ColIndex(df, growthColumns[j])]]

\* C8: in a successful result every row of both tables carries a configured
\* school and that school's EC; the school's name is contained in the NFC
\* name of the file or sheet the row was read from; the rows of a sheet
\* naming no configured school are in neither table and cause no error.
C8_ConditionTagging ==
    (Fresh /\ Succeeded(result)) =>
        /\ \A r \in 1..Len(result.env.df.rows) :
             \E k \in SchoolOfRow(result.env.df, result.env.df.rows[r]) :
                EnvEntriesRead(k) # {}
        /\ \A r \in 1..Len(result.growth.df.rows) :
             \E k \in SchoolOfRow(result.growth.df, result.growth.df.rows[r]) :
                \E sh \in SheetsRead :
                   /\ Contains(school_config[k].name, NFC(sh.name))
                   /\ GrowthValues(result.growth.df, result.growth.df.rows[r])
                         \in Range(sh.df.rows)
        /\ \A sh \in SheetsRead : ~SheetMatches(sh) =>
             \A r \in 1..Len(result.growth.df.rows) :
                GrowthValues(result.growth.df, result.growth.df.rows[r])
                   \notin Range(sh.df.rows)

C8_Witness ==
    /\ Fresh /\ Succeeded(result)
    /\ \E sh \in SheetsRead : ~SheetMatches(sh)
    /\ \E sh \in SheetsRead : SheetMatches(sh) /\ sh.name # NFC(sh.name)
    /\ Len(result.env.df.rows) > 0
    /\ Len(result.growth.df.rows) > 0

\* the enumeration the latest call saw, and the paths a call reads when the
\* first satisfying entry of every rule wins: the schools in configuration
\* order, then the workbook
Seen == Enumerate(listing, result.order)

FirstWins ==
    LET env == [k \in Schools |->
                   IF SatEnv(Seen, k) = {} THEN <<>>
                   ELSE <<Seen[Min(SatEnv(Seen, k))].name>>]
        growth == IF SatGrowth(Seen) = {} THEN <<>>
                  ELSE <<Seen[Min(SatGrowth(Seen))].name>>
    IN Flatten(env) \o growth

IsPrefix(a, b) == Len(a) <= Len(b) /\ a = SubSeq(b, 1, Len(a))

\* C9: when several entries satisfy a rule, load_data reads the first of
\* them in enumeration order, also when two entries differ on disk and have
\* the same NFC name; when none satisfies it nothing is read for the rule
\* and no exception is raised.
C9_FirstMatchWins ==
    (Fresh /\ dirKind = "dir") =>
        /\ result.status = "returned"
        /\ IsPrefix(result.reads, FirstWins)
        /\ Succeeded(result) => result.reads = FirstWins

\* C10: the environment table is the per-school tables in configuration
\* order, each with its rows in file order, whatever the enumeration order;
\* the growth table is the matched sheets in workbook order, each with its
\* rows in sheet order.
C10_OutputOrdering ==
    (Fresh /\ Succeeded(result)) =>
        /\ result.env.df.rows =
             Flatten([k \in Schools |->
                 IF EnvEntriesRead(k) = {} THEN <<>>
                 ELSE LoadEnvFile(school_config[k],
                                  listing[Min(EnvEntriesRead(k))]).df.rows])
        /\ \A i \in GrowthEntriesRead :
             LET sheets == Content(listing[i].body).xlsx.sheets
             IN result.growth.df.rows =
                  Flatten([j \in 1..Len(sheets) |->
                      IF SheetMatches(sheets[j])
                      THEN TagRows(sheets[j].df,
                               school_config[MatchedSchool(NFC(sheets[j].name))]).rows
                      ELSE <<>>])

C10_Witness ==
    /\ Fresh /\ Succeeded(result)
    /\ result.order = "backward"
    /\ \A k \in Schools : RowsOf(result.env, k) # <<>>
    /\ Cardinality({k \in Schools : RowsOf(result.growth, k) # <<>>}) >= 3

====
